---------------------------- MODULE Spec2Model ----------------------------
(***************************************************************************)
(* Model of meeting_detection: the pattern registry and URL validator      *)
(* (config.py), the connection classifier (network.py), the data model     *)
(* (models.py), the two-tier detector (detector.py) and the polling engine *)
(* (engine.py).                                                            *)
(*                                                                         *)
(* Conventions.  A Python str is a TLA+ string.  An Optional[T] is a       *)
(* sequence of length 0 (None) or 1 (the value).  An ordered dict is a     *)
(* sequence of [name, urls] records in insertion order.  A collaborator    *)
(* call that may raise is an outcome record or an outcome name.            *)
(***************************************************************************)
EXTENDS Integers, Sequences, FiniteSets, TLC

None == <<>>
Some(x) == <<x>>
IsNone(o) == o = <<>>
IsSome(o) == o # <<>>
The(o) == o[1]

(***************************************************************************)
(* Python str primitives                                                   *)
(***************************************************************************)
AsciiUpper == "ABCDEFGHIJKLMNOPQRSTUVWXYZ"
AsciiLower == "abcdefghijklmnopqrstuvwxyz"
\* a cased letter outside ASCII, as str.lower(), str.isalpha() and
\* str.islower() know it: U+00C9 and its lowercase U+00E9
NonAsciiUpper == "É"
NonAsciiLower == "é"
Digits == "0123456789"

CharAt(s, i) == SubSeq(s, i, i)

\* `sub in s`
Contains(s, sub) ==
    \E i \in 1..(Len(s) - Len(sub) + 1) : SubSeq(s, i, i + Len(sub) - 1) = sub

\* s.find(sub), 1-based; 0 when absent (Python: -1)
Find(s, sub) ==
    IF Contains(s, sub)
    THEN CHOOSE i \in 1..(Len(s) - Len(sub) + 1) :
            /\ SubSeq(s, i, i + Len(sub) - 1) = sub
            /\ \A j \in 1..(i - 1) : SubSeq(s, j, j + Len(sub) - 1) # sub
    ELSE 0

\* position of the one-character string c in the alphabet abc, 0 when absent
IndexIn(abc, c) == Find(abc, c)

UpperChars == {CharAt(AsciiUpper \o NonAsciiUpper, i) : i \in 1..(Len(AsciiUpper) + 1)}
LowerChars == {CharAt(AsciiLower \o NonAsciiLower, i) : i \in 1..(Len(AsciiLower) + 1)}
LowerOfUpper ==
    [c \in UpperChars |->
        CharAt(AsciiLower \o NonAsciiLower, IndexIn(AsciiUpper \o NonAsciiUpper, c))]

LowerChar(c) == IF c \in UpperChars THEN LowerOfUpper[c] ELSE c

RECURSIVE Lower(_)
\* s.lower()
Lower(s) ==
    IF Len(s) <= 1 THEN LowerChar(s)
    ELSE LET half == Len(s) \div 2 IN
         Lower(SubSeq(s, 1, half)) \o Lower(SubSeq(s, half + 1, Len(s)))

\* s.split(sep)[0] for a one-character sep
BeforeFirst(s, sep) == IF Contains(s, sep) THEN SubSeq(s, 1, Find(s, sep) - 1) ELSE s

\* the text after the first sep
AfterFirst(s, sep) == SubSeq(s, Find(s, sep) + Len(sep), Len(s))

RECURSIVE RStrip(_, _)
\* s.rstrip(c) for a one-character c
RStrip(s, c) ==
    IF s # "" /\ CharAt(s, Len(s)) = c THEN RStrip(SubSeq(s, 1, Len(s) - 1), c) ELSE s

RECURSIVE Split(_, _)
\* s.split(sep) for a one-character sep
Split(s, sep) ==
    IF Contains(s, sep)
    THEN <<BeforeFirst(s, sep)>> \o Split(AfterFirst(s, sep), sep)
    ELSE <<s>>

\* c.isalpha() and c.islower() on the characters of the model's alphabet
IsLowerAlphaChar(c) == c \in LowerChars

\* segment.isalpha() and segment.islower()
IsAlphaLower(s) == s # "" /\ \A i \in 1..Len(s) : IsLowerAlphaChar(CharAt(s, i))

RECURSIVE IntToStr(_)
\* str(n)
IntToStr(n) ==
    IF n < 0 THEN "-" \o IntToStr(0 - n)
    ELSE IF n < 10 THEN CharAt(Digits, n + 1)
    ELSE IntToStr(n \div 10) \o CharAt(Digits, (n % 10) + 1)

RECURSIVE SumSeq(_)
SumSeq(q) == IF q = <<>> THEN 0 ELSE Head(q) + SumSeq(Tail(q))

(***************************************************************************)
(* config.py: pattern registry                                             *)
(***************************************************************************)
MEETING_PROCESSES ==
    << "zoom", "zoom.us", "ZoomOpener", "zTsc",
       "teams", "ms-teams", "Microsoft Teams",
       "Google Chrome", "chrome", "Microsoft Edge", "msedge",
       "webexmta", "webex", "Cisco Webex",
       "skype", "Skype" >>

MEETING_URL_PATTERNS ==
    << "meet.google.com/",
       "teams.live.com/v2/", "teams.live.com/light-meetings/launch",
       "teams.microsoft.com/_#/meet", "teams.microsoft.com/_#/conversations",
       "zoom.us/j/", "zoom.us/s/", "zoom.us/wc/",
       "web.webex.com/meetings", ".webex.com/wbxmjs/joinservice",
       ".webex.com/webappng", "webex.com/webapp", "webex.com/meet",
       "meetings.webex.com" >>

BROWSER_PROCESSES ==
    << "Google Chrome", "chrome", "Chromium", "chromium", "Microsoft Edge",
       "msedge", "Edge", "Brave Browser", "brave", "Brave", "Opera", "opera",
       "Opera Browser", "Vivaldi", "vivaldi", "Yandex", "yandex", "Arc", "arc",
       "Firefox", "firefox", "Firefox Developer Edition", "Firefox Nightly",
       "Safari", "safari", "Safari Technology Preview",
       "Tor Browser", "tor", "DuckDuckGo", "duckduckgo",
       "Epic Privacy Browser", "epic", "Maxthon", "maxthon", "Pale Moon",
       "palemoon", "Waterfox", "waterfox", "SeaMonkey", "seamonkey",
       "Electron", "electron" >>

MinSegmentLen == 2
MaxSegmentLen == 5
MinCodeLen == 8
MaxCodeLen == 15

is_valid_google_meet_code(code) ==
    IF code = "" THEN FALSE
    ELSE LET segments == Split(code, "-") IN
         IF Len(segments) # 3 THEN FALSE
         ELSE IF \E i \in 1..3 :
                    \/ segments[i] = ""
                    \/ Len(segments[i]) < MinSegmentLen
                    \/ Len(segments[i]) > MaxSegmentLen
                    \/ ~IsAlphaLower(segments[i])
              THEN FALSE
              ELSE LET total_chars == SumSeq([i \in 1..3 |-> Len(segments[i])]) IN
                   ~(total_chars < MinCodeLen \/ total_chars > MaxCodeLen)

\* is_meeting_url without the early return of the Meet branch: a Meet URL
\* that is no meeting falls through to the other providers' patterns
is_meeting_url_falling_through(url) ==
    LET url_lower == Lower(url)
        after_domain == AfterFirst(url_lower, "meet.google.com/")
        path_segment == RStrip(BeforeFirst(BeforeFirst(after_domain, "?"), "#"), "/")
    IN  \/ /\ Contains(url_lower, "meet.google.com/")
           /\ path_segment \notin {"landing", "new", "join", ""}
           /\ is_valid_google_meet_code(path_segment)
        \/ \E i \in 2..Len(MEETING_URL_PATTERNS) :
               Contains(url_lower, MEETING_URL_PATTERNS[i])

is_meeting_url(url) ==
    LET url_lower == Lower(url) IN
    IF Contains(url_lower, "meet.google.com/")
    THEN LET after_domain == AfterFirst(url_lower, "meet.google.com/")
             path_segment ==
                 RStrip(BeforeFirst(BeforeFirst(after_domain, "?"), "#"), "/")
         IN  IF path_segment \in {"landing", "new", "join", ""}
             THEN FALSE
             ELSE is_valid_google_meet_code(path_segment)
    ELSE \E i \in 1..Len(MEETING_URL_PATTERNS) :
            Contains(url_lower, MEETING_URL_PATTERNS[i])

\* app.lower() for app in MEETING_PROCESSES
MEETING_PROCESSES_lower == [i \in 1..Len(MEETING_PROCESSES) |-> Lower(MEETING_PROCESSES[i])]

is_meeting_process(process_name) ==
    LET process_lower == Lower(process_name) IN
    \E i \in 1..Len(MEETING_PROCESSES) :
        Contains(process_lower, MEETING_PROCESSES_lower[i])

\* browser.lower() for browser in BROWSER_PROCESSES
BROWSER_PROCESSES_lower == [i \in 1..Len(BROWSER_PROCESSES) |-> Lower(BROWSER_PROCESSES[i])]

is_browser_process_pattern(process_name) ==
    LET process_lower == Lower(process_name) IN
    \E i \in 1..Len(BROWSER_PROCESSES) :
        Contains(process_lower, BROWSER_PROCESSES_lower[i])

\* bundle: what the bundle-category / bundle-identifier lookup established,
\* "browser" or "undetermined" (lookup failed, timed out, or named no browser)
is_browser_process_macos(process_name, bundle) ==
    IF bundle = "browser" THEN TRUE ELSE is_browser_process_pattern(process_name)

\* platform.macos.is_browser_process
is_browser_process(process_name, bundle) == is_browser_process_macos(process_name, bundle)


(***************************************************************************)
(* network.py: connection classifier                                       *)
(***************************************************************************)
MEETING_DOMAINS ==
    << "zoom.us", "zoom.com", "teams.microsoft.com", "office.com",
       "webex.com", "cisco.com", "meet.google.com", "google.com" >>

MEETING_VIDEO_PORTS == {8801, 8802, 3478, 3479, 3480, 3481, 9000, 9999, 19302, 19309}

ZoomUdpPort == 8801

\* NetworkConnection
Conn(process_name, protocol, remote_address, remote_port, state) ==
    [process_name |-> process_name, protocol |-> protocol,
     remote_address |-> remote_address, remote_port |-> remote_port,
     state |-> state]

\* lsof: [ok |-> FALSE] when the inventory cannot be obtained (command
\* missing, timed out, non-zero exit) or its parse raised, else [ok |-> TRUE,
\* conns |-> the parsed rows].  The result raises (ok = FALSE) or is the rows
\* of the process.
get_network_connections_for_process(process_name, lsof) ==
    IF ~lsof.ok THEN [ok |-> FALSE, conns |-> <<>>]
    ELSE [ok |-> TRUE,
          conns |-> SelectSeq(lsof.conns, LAMBDA c : c.process_name = process_name)]

\* faulty variant: the Zoom UDP port counts whatever the state
is_meeting_connection_any_state(conn) ==
    LET is_meeting_domain ==
            \E i \in 1..Len(MEETING_DOMAINS) :
                Contains(conn.remote_address, MEETING_DOMAINS[i])
        is_video_port == conn.remote_port \in MEETING_VIDEO_PORTS
        is_established == conn.state = "ESTABLISHED"
        is_zoom_udp ==
            /\ conn.protocol = "UDP"
            /\ conn.remote_port = ZoomUdpPort
    IN  (is_meeting_domain /\ (is_established \/ is_video_port)) \/ is_zoom_udp

is_meeting_connection(conn) ==
    LET is_meeting_domain ==
            \E i \in 1..Len(MEETING_DOMAINS) :
                Contains(conn.remote_address, MEETING_DOMAINS[i])
        is_video_port == conn.remote_port \in MEETING_VIDEO_PORTS
        is_established == conn.state = "ESTABLISHED"
        is_zoom_udp ==
            /\ conn.protocol = "UDP"
            /\ conn.remote_port = ZoomUdpPort
            /\ conn.state # "CLOSED"
    IN  (is_meeting_domain /\ (is_established \/ is_video_port)) \/ is_zoom_udp

connection_detail(conn) ==
    conn.protocol \o " " \o conn.process_name \o " " \o conn.remote_address
        \o ":" \o IntToStr(conn.remote_port) \o " (" \o conn.state \o ")"

\* [ok |-> FALSE] when it raises, else (has_meeting, count, details)
detect_meeting_network_activity(process_name, lsof) ==
    LET got == get_network_connections_for_process(process_name, lsof) IN
    IF ~got.ok
    THEN [ok |-> FALSE, has_meeting |-> FALSE, count |-> 0, details |-> <<>>]
    ELSE LET meeting_connections == SelectSeq(got.conns, is_meeting_connection)
             details == [i \in 1..Len(meeting_connections) |->
                            connection_detail(meeting_connections[i])]
         IN  [ok |-> TRUE,
              has_meeting |-> Len(meeting_connections) > 0,
              count |-> Len(meeting_connections),
              details |-> details]

(***************************************************************************)
(* network.py: the text of `lsof -i -P -n`                                 *)
(*                                                                         *)
(* A function that can raise yields a record with ok = FALSE and the       *)
(* exception's name in error.                                              *)
(***************************************************************************)
\* the whitespace of the model's alphabet
IsSpace(c) == c \in {" ", "\t", "\n"}

\* the position of the first character of s that is whitespace (want) or
\* is not (~want); 0 when there is none
FirstWhere(s, want) ==
    LET hit(i) == IsSpace(CharAt(s, i)) = want IN
    IF \E i \in 1..Len(s) : hit(i)
    THEN CHOOSE i \in 1..Len(s) : hit(i) /\ \A j \in 1..(i - 1) : ~hit(j)
    ELSE 0

RECURSIVE SplitWs(_)
\* s.split(): the fields between runs of whitespace
SplitWs(s) ==
    LET start == FirstWhere(s, FALSE) IN
    IF start = 0 THEN <<>>
    ELSE LET rest == SubSeq(s, start, Len(s))
             stop == FirstWhere(rest, TRUE)
         IN  IF stop = 0 THEN <<rest>>
             ELSE <<SubSeq(rest, 1, stop - 1)>> \o SplitWs(SubSeq(rest, stop, Len(rest)))

\* s.splitlines() on "\n"
splitlines(s) ==
    LET q == Split(s, "\n") IN
    IF q[Len(q)] = "" THEN SubSeq(q, 1, Len(q) - 1) ELSE q

\* s.startswith(prefix)
startswith(s, prefix) == Len(s) >= Len(prefix) /\ SubSeq(s, 1, Len(prefix)) = prefix

RECURSIVE join(_, _)
\* sep.join(parts)
join(parts, sep) ==
    IF parts = <<>> THEN ""
    ELSE IF Len(parts) = 1 THEN parts[1]
    ELSE parts[1] \o sep \o join(Tail(parts), sep)

RECURSIVE digits_value(_, _)
\* the value of a text of digits and underscores, after the value n
digits_value(s, n) ==
    IF s = "" THEN n
    ELSE IF Head(s) = "_" THEN digits_value(Tail(s), n)
    ELSE digits_value(Tail(s), 10 * n + (IndexIn(Digits, Head(s)) - 1))

\* int(s) for a text without whitespace: an optional sign, then digits
\* with single underscores between them; None for ValueError
int_of(s) ==
    LET IsDigit(c) == Contains(Digits, c)
        signed == s # "" /\ Head(s) \in {"+", "-"}
        body == IF signed THEN Tail(s) ELSE s
        valid ==
            /\ body # ""
            /\ \A i \in 1..Len(body) : IsDigit(CharAt(body, i)) \/ CharAt(body, i) = "_"
            /\ IsDigit(CharAt(body, 1)) /\ IsDigit(CharAt(body, Len(body)))
            /\ ~Contains(body, "__")
    IN  IF ~valid THEN None
        ELSE IF signed /\ Head(s) = "-" THEN Some(0 - digits_value(body, 0))
        ELSE Some(digits_value(body, 0))

Parsed(address, port, state) ==
    [ok |-> TRUE, error |-> "", remote_address |-> address, remote_port |-> port,
     state |-> state]

Raised(error) ==
    [ok |-> FALSE, error |-> error, remote_address |-> "", remote_port |-> 0,
     state |-> ""]

\* line 90-94 and 100-104: text[colon_pos + 1:].split()[0], then int()
port_after_colon(address, rest, state) ==
    LET tokens == SplitWs(rest) IN
    IF tokens = <<>> THEN Raised("IndexError")
    ELSE LET port == int_of(tokens[1]) IN
         Parsed(address, IF IsSome(port) THEN The(port) ELSE 0, state)

parse_connection_name(name) ==
    LET state == IF Contains(name, "ESTABLISHED") THEN "ESTABLISHED"
                 ELSE IF Contains(name, "LISTEN") THEN "LISTEN"
                 ELSE IF Contains(name, "CLOSED") THEN "CLOSED"
                 ELSE "UNKNOWN"
    IN
    IF Contains(name, "->")
    THEN LET remote_part == AfterFirst(name, "->") IN
         IF Contains(remote_part, ":")
         THEN port_after_colon(BeforeFirst(remote_part, ":"),
                               AfterFirst(remote_part, ":"), state)
         ELSE Parsed("", 0, state)
    ELSE IF Contains(name, ":")
    THEN port_after_colon(BeforeFirst(name, ":"), AfterFirst(name, ":"), state)
    ELSE Parsed("", 0, state)

RECURSIVE parse_lines(_, _)
\* the loop of line 120-152 over the lines left, conns being the list so far
parse_lines(lines, conns) ==
    IF lines = <<>> THEN [ok |-> TRUE, error |-> "", conns |-> conns]
    ELSE LET line == Head(lines)
             parts == SplitWs(line)
             protocol == IF Contains(line, "TCP") THEN "TCP"
                         ELSE IF Contains(line, "UDP") THEN "UDP"
                         ELSE "UNKNOWN"
         IN  IF startswith(line, "COMMAND") \/ parts = <<>> \/ Len(parts) < 9
             THEN parse_lines(Tail(lines), conns)
             ELSE LET parsed == parse_connection_name(join(SubSeq(parts, 9, Len(parts)), " ")) IN
                  IF ~parsed.ok
                  THEN [ok |-> FALSE, error |-> parsed.error, conns |-> <<>>]
                  ELSE parse_lines(Tail(lines),
                           Append(conns, Conn(parts[1], protocol,
                                              parsed.remote_address,
                                              parsed.remote_port, parsed.state)))

parse_lsof_output(output) == parse_lines(splitlines(output), <<>>)

\* line 164-174: subprocess.run and the parse of its stdout.  run: "ok",
\* "nonzero" (returncode != 0), "timeout" (TimeoutExpired) or "missing"
\* (FileNotFoundError)
lsof_inventory(run, stdout) ==
    IF run # "ok" THEN [ok |-> FALSE, error |-> "RuntimeError", conns |-> <<>>]
    ELSE parse_lsof_output(stdout)

(***************************************************************************)
(* models.py: data model                                                   *)
(***************************************************************************)
SCORE_MEETING_APP == 3
SCORE_MEETING_WINDOW == 2
SCORE_MICROPHONE == 2
SCORE_CAMERA == 1

INACTIVE == "Inactive"
ACTIVE == "Active"
MeetingState == {INACTIVE, ACTIVE}

NATIVE_APP_WITH_NETWORK == "native_app_with_network"
BROWSER_WITH_MEETING_URL == "browser_with_meeting_url"
REASON_NONE == "none"
DetectionReason == {NATIVE_APP_WITH_NETWORK, BROWSER_WITH_MEETING_URL, REASON_NONE}

create_inactive ==
    [meeting_app_detected |-> FALSE, meeting_app_name |-> None,
     meeting_window_detected |-> FALSE, microphone_active |-> FALSE,
     camera_active |-> FALSE, score |-> 0, is_meeting_active |-> FALSE,
     reason |-> REASON_NONE, reason_app_name |-> None,
     reason_browser_name |-> None, reason_url |-> None]

create_native_app(app_name, microphone, camera) ==
    [meeting_app_detected |-> TRUE, meeting_app_name |-> Some(app_name),
     meeting_window_detected |-> FALSE, microphone_active |-> microphone,
     camera_active |-> camera,
     score |-> SCORE_MEETING_APP + (IF microphone THEN SCORE_MICROPHONE ELSE 0)
                  + (IF camera THEN SCORE_CAMERA ELSE 0),
     is_meeting_active |-> TRUE, reason |-> NATIVE_APP_WITH_NETWORK,
     reason_app_name |-> Some(app_name), reason_browser_name |-> None,
     reason_url |-> None]

\* faulty variant: the browser is recorded as the reason's app name as well
create_browser_meeting_as_app(browser_name, url, microphone, camera) ==
    [meeting_app_detected |-> TRUE, meeting_app_name |-> Some(browser_name),
     meeting_window_detected |-> FALSE, microphone_active |-> microphone,
     camera_active |-> camera,
     score |-> SCORE_MEETING_APP + (IF microphone THEN SCORE_MICROPHONE ELSE 0)
                  + (IF camera THEN SCORE_CAMERA ELSE 0),
     is_meeting_active |-> TRUE, reason |-> BROWSER_WITH_MEETING_URL,
     reason_app_name |-> Some(browser_name),
     reason_browser_name |-> Some(browser_name), reason_url |-> Some(url)]

create_browser_meeting(browser_name, url, microphone, camera) ==
    [meeting_app_detected |-> TRUE, meeting_app_name |-> Some(browser_name),
     meeting_window_detected |-> FALSE, microphone_active |-> microphone,
     camera_active |-> camera,
     score |-> SCORE_MEETING_APP + (IF microphone THEN SCORE_MICROPHONE ELSE 0)
                  + (IF camera THEN SCORE_CAMERA ELSE 0),
     is_meeting_active |-> TRUE, reason |-> BROWSER_WITH_MEETING_URL,
     reason_app_name |-> None, reason_browser_name |-> Some(browser_name),
     reason_url |-> Some(url)]

\* `opt or default` for an Optional[str]: None and "" are both falsy
OrElse(opt, default) == IF IsNone(opt) \/ opt = <<"">> THEN default ELSE The(opt)

\* faulty variant: the camera is left out of the score, and the URL is
\* copied whatever the reason
from_detection_result_careless(result) ==
    [active |-> result.is_meeting_active,
     score |-> (IF result.meeting_app_detected THEN SCORE_MEETING_APP ELSE 0)
               + (IF result.meeting_window_detected THEN SCORE_MEETING_WINDOW ELSE 0)
               + (IF result.microphone_active THEN SCORE_MICROPHONE ELSE 0),
     app_name |-> result.meeting_app_name,
     reason |-> IF result.reason = NATIVE_APP_WITH_NETWORK
                THEN "NativeAppWithNetwork(" \o OrElse(result.reason_app_name, "Unknown") \o ")"
                ELSE IF result.reason = BROWSER_WITH_MEETING_URL
                THEN "BrowserWithMeetingUrl(" \o OrElse(result.reason_browser_name, "Unknown") \o ")"
                ELSE "None",
     meeting_url |-> result.reason_url,
     signals |->
        [meeting_app |-> [active |-> result.meeting_app_detected,
                          weight |-> SCORE_MEETING_APP],
         meeting_window |-> [active |-> result.meeting_window_detected,
                             weight |-> SCORE_MEETING_WINDOW],
         microphone |-> [active |-> result.microphone_active,
                         weight |-> SCORE_MICROPHONE],
         camera |-> [active |-> result.camera_active,
                     weight |-> SCORE_CAMERA]]]

\* DetectionDetails.from_detection_result
from_detection_result(result) ==
    LET score == (IF result.meeting_app_detected THEN SCORE_MEETING_APP ELSE 0)
                 + (IF result.meeting_window_detected THEN SCORE_MEETING_WINDOW ELSE 0)
                 + (IF result.microphone_active THEN SCORE_MICROPHONE ELSE 0)
                 + (IF result.camera_active THEN SCORE_CAMERA ELSE 0)
        reason_str ==
            IF result.reason = NATIVE_APP_WITH_NETWORK
            THEN "NativeAppWithNetwork(" \o OrElse(result.reason_app_name, "Unknown") \o ")"
            ELSE IF result.reason = BROWSER_WITH_MEETING_URL
            THEN "BrowserWithMeetingUrl(" \o OrElse(result.reason_browser_name, "Unknown") \o ")"
            ELSE "None"
        meeting_url ==
            IF result.reason = BROWSER_WITH_MEETING_URL THEN result.reason_url ELSE None
    IN  [active |-> result.is_meeting_active,
         score |-> score,
         app_name |-> result.meeting_app_name,
         reason |-> reason_str,
         meeting_url |-> meeting_url,
         signals |->
            [meeting_app |-> [active |-> result.meeting_app_detected,
                              weight |-> SCORE_MEETING_APP],
             meeting_window |-> [active |-> result.meeting_window_detected,
                                 weight |-> SCORE_MEETING_WINDOW],
             microphone |-> [active |-> result.microphone_active,
                             weight |-> SCORE_MICROPHONE],
             camera |-> [active |-> result.camera_active,
                         weight |-> SCORE_CAMERA]]]

(***************************************************************************)
(* platform/macos.py: browser tab inventory                                *)
(***************************************************************************)
TAB_BROWSERS == << "Google Chrome", "Safari", "Microsoft Edge" >>

RECURSIVE browser_urls_from(_, _)
\* tabs[i] is what get_<browser>_tab_urls returned for TAB_BROWSERS[i] (the
\* empty list when the browser is not running or its lookup failed); a
\* browser enters the dict, in this order, only with a non-empty list
browser_urls_from(tabs, i) ==
    IF i > Len(TAB_BROWSERS) THEN <<>>
    ELSE (IF tabs[i] # <<>> THEN <<[name |-> TAB_BROWSERS[i], urls |-> tabs[i]]>> ELSE <<>>)
            \o browser_urls_from(tabs, i + 1)

get_browser_tab_urls(tabs) == browser_urls_from(tabs, 1)

(***************************************************************************)
(* detector.py: MeetingDetector.detect                                     *)
(*                                                                         *)
(* signals: what the collaborators answer during one call,                 *)
(*   mic, cam   "active" | "inactive" | "raise"                            *)
(*   procs      [ok, names]: the process listing, or its failure           *)
(*   bundle[i]  "browser" | "undetermined" | "raise": the browser check    *)
(*              made for the i-th listed process                           *)
(*   lsof[i]    the connection inventory obtained for the i-th process     *)
(*   tabs       [ok, lists]: the tab lookup, or its failure                *)
(***************************************************************************)
\* faulty variant: a check that raised counts as active
flag_unless_inactive(outcome) == outcome # "inactive"

flag_or_false(outcome) == outcome = "active"

processes_or_empty(procs) == IF procs.ok THEN procs.names ELSE <<>>

\* faulty variant: only the bundle lookup counts, a process whose lookup
\* established nothing is never taken for a browser
skip_as_browser_by_bundle_only(process_name, bundle) == bundle = "browser"

\* the browser check of line 87-91: TRUE only when it answered "browser"
skip_as_browser(process_name, bundle) ==
    IF bundle = "raise" THEN FALSE ELSE is_browser_process(process_name, bundle)

\* the network check of line 94-106: TRUE only when it answered has_network
native_has_network(process_name, lsof) ==
    LET r == detect_meeting_network_activity(process_name, lsof) IN
    r.ok /\ r.has_meeting

RECURSIVE tier1(_, _, _, _, _)
\* the loop of line 84-108 from the i-th process on: Some(result) or None
tier1(processes, signals, microphone_active, camera_active, i) ==
    IF i > Len(processes) THEN None
    ELSE LET process_name == processes[i] IN
         IF is_meeting_process(process_name)
         THEN IF skip_as_browser(process_name, signals.bundle[i])
              THEN tier1(processes, signals, microphone_active, camera_active, i + 1)
              ELSE IF native_has_network(process_name, signals.lsof[i])
                   THEN Some(create_native_app(process_name, microphone_active,
                                               camera_active))
                   ELSE tier1(processes, signals, microphone_active,
                              camera_active, i + 1)
         ELSE tier1(processes, signals, microphone_active, camera_active, i + 1)

RECURSIVE tier2(_, _, _, _, _)
\* the loops of line 115-124 from the j-th URL of the b-th browser on
tier2(browser_urls_map, microphone_active, camera_active, b, j) ==
    IF b > Len(browser_urls_map) THEN None
    ELSE IF j > Len(browser_urls_map[b].urls)
    THEN tier2(browser_urls_map, microphone_active, camera_active, b + 1, 1)
    ELSE IF is_meeting_url(browser_urls_map[b].urls[j])
    THEN Some(create_browser_meeting(browser_urls_map[b].name,
                                     browser_urls_map[b].urls[j],
                                     microphone_active, camera_active))
    ELSE tier2(browser_urls_map, microphone_active, camera_active, b, j + 1)

\* faulty variant: the browser tabs are consulted before the processes
detect_browser_first(signals) ==
    LET microphone_active == flag_or_false(signals.mic)
        camera_active == flag_or_false(signals.cam)
        processes == processes_or_empty(signals.procs)
        native == tier1(processes, signals, microphone_active, camera_active, 1)
        browser ==
            IF signals.tabs.ok
            THEN tier2(get_browser_tab_urls(signals.tabs.lists),
                       microphone_active, camera_active, 1, 1)
            ELSE None
    IN  IF IsSome(browser) THEN The(browser)
        ELSE IF IsSome(native) THEN The(native)
        ELSE create_inactive

\* faulty variant: a native app counts only while the microphone is in use
detect_microphone_gated(signals) ==
    LET microphone_active == flag_or_false(signals.mic)
        camera_active == flag_or_false(signals.cam)
        processes == processes_or_empty(signals.procs)
        native == tier1(processes, signals, microphone_active, camera_active, 1)
        browser ==
            IF signals.tabs.ok
            THEN tier2(get_browser_tab_urls(signals.tabs.lists),
                       microphone_active, camera_active, 1, 1)
            ELSE None
    IN  IF IsSome(native) /\ microphone_active THEN The(native)
        ELSE IF IsSome(browser) THEN The(browser)
        ELSE create_inactive

detect(signals) ==
    LET microphone_active == flag_or_false(signals.mic)
        camera_active == flag_or_false(signals.cam)
        processes == processes_or_empty(signals.procs)
        native == tier1(processes, signals, microphone_active, camera_active, 1)
        browser ==
            IF signals.tabs.ok
            THEN tier2(get_browser_tab_urls(signals.tabs.lists),
                       microphone_active, camera_active, 1, 1)
            ELSE None
    IN  IF IsSome(native) THEN The(native)
        ELSE IF IsSome(browser) THEN The(browser)
        ELSE create_inactive


(***************************************************************************)
(* detector.py: MeetingDetector.detect_with_state, get_current_state       *)
(***************************************************************************)
state_of(result) == IF result.is_meeting_active THEN ACTIVE ELSE INACTIVE

\* faulty variant: only the end of a meeting is returned as a transition
state_change_of_end_only(new_state, previous) ==
    IF new_state # previous /\ new_state = INACTIVE THEN Some(new_state) ELSE None

\* line 148-152: the transition returned by the compare under _state_lock
state_change_of(new_state, previous) ==
    IF new_state # previous THEN Some(new_state) ELSE None

\* faulty variant: _previous_state is never updated
previous_state_kept(new_state, previous) == previous

\* line 148-149: the value of _previous_state after the compare
previous_state_after(new_state, previous) ==
    IF new_state # previous THEN new_state ELSE previous

(***************************************************************************)
(* Bounds                                                                   *)
(***************************************************************************)
\* processes in one process listing
MaxProcs == 2
\* sampling cycles begun, over all sampling loops
MaxCycles == 2
\* callback registrations
MaxRegs == 2
\* sampling-loop threads alive at once
MaxLoops == 2
\* rows in one lsof text
MaxRows == 2

Loops == 1..MaxLoops

(***************************************************************************)
(* State                                                                    *)
(***************************************************************************)
VARIABLES
    signals,          \* what the host's collaborators answer now
    res,              \* Optional: the result of a direct call of a function
    host,             \* the results detect() returns in the host's situations
    api,              \* the module's global _engine, and the latest facade call
    is_running,       \* DetectionEngine._is_running
    thread,           \* DetectionEngine._thread: 0 (None) or the latest loop thread
    loop,             \* the sampling-loop threads: position and locals of _poll_loop
    previous_state,   \* MeetingDetector._previous_state
    last_result,      \* DetectionEngine._last_result (Optional)
    start_callbacks,  \* DetectionEngine._start_callbacks
    end_callbacks,    \* DetectionEngine._end_callbacks
    cbThreads,        \* the live callback threads (_safe_callback_wrapper)
    client,           \* position of the thread that calls the engine's API
    cycles,           \* sampling cycles begun so far
    regKind,          \* history: the kind of each registration, in order
    stores,           \* history: the number of stores of a last result so far
    prevVerdict,      \* history: state of the verdict of the latest compare
    balance,          \* history: start dispatches minus end dispatches so far
    stopIssued        \* history: stop_polling() has been called

detVars == <<signals, res, host, api>>
engVars == <<is_running, thread, loop, previous_state, last_result,
             start_callbacks, end_callbacks, cbThreads, client, cycles,
             regKind, stores, prevVerdict, balance, stopIssued>>
vars == <<signals, res, host, api, is_running, thread, loop, previous_state, last_result,
          start_callbacks, end_callbacks, cbThreads, client, cycles,
          regKind, stores, prevVerdict, balance, stopIssued>>

(***************************************************************************)
(* Host signals the specifications draw from                               *)
(***************************************************************************)
ProcNames == {"zoom.us", "Google Chrome", "Finder"}

MeetUrl == "https://meet.google.com/abc-defg-hij"
LandingUrl == "https://meet.google.com/landing"
ZoomWebUrl == "https://zoom.us/j/1234567890"
PlainUrl == "https://example.com/"

\* one inventory with meeting traffic of zoom.us and of Google Chrome, one without
BusyInventory ==
    << Conn("zoom.us", "UDP", "144.195.35.10", 8801, "ESTABLISHED"),
       Conn("Google Chrome", "TCP", "lhr25s34.google.com", 443, "ESTABLISHED"),
       Conn("Finder", "TCP", "17.57.144.10", 443, "ESTABLISHED") >>
IdleInventory ==
    << Conn("zoom.us", "TCP", "170.114.52.2", 443, "ESTABLISHED"),
       Conn("Google Chrome", "TCP", "lhr25s34.google.com", 443, "CLOSED") >>

LsofOutcomes ==
    { [ok |-> FALSE, conns |-> <<>>],
      [ok |-> TRUE, conns |-> BusyInventory],
      [ok |-> TRUE, conns |-> IdleInventory] }

BundleOutcomes == {"browser", "undetermined", "raise"}
FlagOutcomes == {"active", "inactive", "raise"}

NoTabs == [ok |-> TRUE, lists |-> << <<>>, <<>>, <<>> >>]
TabOutcomes ==
    { [ok |-> FALSE, lists |-> << <<>>, <<>>, <<>> >>],
      NoTabs,
      [ok |-> TRUE, lists |-> << <<LandingUrl, MeetUrl>>, <<>>, <<>> >>],
      [ok |-> TRUE, lists |-> << <<PlainUrl>>, <<PlainUrl, ZoomWebUrl>>, <<MeetUrl>> >>],
      [ok |-> TRUE, lists |-> << <<>>, <<LandingUrl>>, <<PlainUrl>> >>] }

\* the process listings of at most n processes, and the failed listing
ProcOutcomes(n) ==
    { [ok |-> FALSE, names |-> <<>>] }
    \cup { [ok |-> TRUE, names |-> q] :
            q \in UNION { [1..len -> ProcNames] : len \in 0..n } }

\* every combination of collaborator answers, failures included, over
\* listings of at most n processes
DetectSignals(n) ==
    UNION { { [mic |-> m, cam |-> c, procs |-> p, bundle |-> b, lsof |-> i, tabs |-> t] :
                m \in FlagOutcomes, c \in FlagOutcomes,
                b \in [1..Len(p.names) -> BundleOutcomes],
                i \in [1..Len(p.names) -> LsofOutcomes],
                t \in TabOutcomes } :
            p \in ProcOutcomes(n) }

Quiet(m, c) ==
    [mic |-> m, cam |-> c, procs |-> [ok |-> TRUE, names |-> <<"Finder">>],
     bundle |-> <<"undetermined">>, lsof |-> <<[ok |-> TRUE, conns |-> IdleInventory]>>,
     tabs |-> NoTabs]
NativeMeeting(m, c) ==
    [mic |-> m, cam |-> c, procs |-> [ok |-> TRUE, names |-> <<"zoom.us">>],
     bundle |-> <<"undetermined">>, lsof |-> <<[ok |-> TRUE, conns |-> BusyInventory]>>,
     tabs |-> NoTabs]
BrowserMeeting(m, c) ==
    [mic |-> m, cam |-> c, procs |-> [ok |-> TRUE, names |-> <<"Google Chrome">>],
     bundle |-> <<"browser">>, lsof |-> <<[ok |-> TRUE, conns |-> IdleInventory]>>,
     tabs |-> [ok |-> TRUE, lists |-> << <<LandingUrl, MeetUrl>>, <<>>, <<>> >>]]

\* the host situations the engine is run in
EngineSignals ==
    { Quiet("inactive", "inactive"), NativeMeeting("active", "inactive"),
      BrowserMeeting("inactive", "active") }


(***************************************************************************)
(* engine.py: DetectionEngine                                              *)
(*                                                                         *)
(* A sampling-loop thread is a record: pc, its position in _poll_loop;     *)
(* result, change: the locals result and state_change; todo: the rest of   *)
(* callback_list in _trigger_callbacks.  History fields: spawned, the      *)
(* registrations a thread was started for in this cycle; nregs, the number *)
(* of registrations made when callback_list was copied; k, the number of   *)
(* this cycle's store among all stores.                                    *)
(*                                                                         *)
(* A callback thread is a record: reg, the registration it runs; details,  *)
(* its argument; st, "ready" (started), "running" (inside the callback),   *)
(* "raised" (the callback raised, the wrapper has not yet handled it);     *)
(* k, as in its dispatching cycle.  A callback that blocks for ever is a   *)
(* thread that stays "running".                                            *)
(***************************************************************************)
flagVars == <<is_running, thread, client, stopIssued>>
detectorVars == <<previous_state, prevVerdict, balance>>
resultVars == <<last_result, stores>>
regVars == <<start_callbacks, end_callbacks, regKind>>

FreshLoop(pc) ==
    [pc |-> pc, result |-> None, change |-> None, todo |-> <<>>,
     spawned |-> <<>>, nregs |-> 0, k |-> 0]

Alive(l) == loop[l].pc \notin {"idle", "done"}
LiveLoops == {l \in Loops : Alive(l)}
FreeLoops == Loops \ LiveLoops

InitEngine ==
    /\ is_running = FALSE
    /\ thread = 0
    /\ loop = [l \in Loops |-> FreshLoop("idle")]
    /\ previous_state = INACTIVE
    /\ last_result = None
    /\ start_callbacks = <<>>
    /\ end_callbacks = <<>>
    /\ cbThreads = {}
    /\ client = "ready"
    /\ cycles = 0
    /\ regKind = <<>>
    /\ stores = 0
    /\ prevVerdict = INACTIVE
    /\ balance = 0
    /\ stopIssued = FALSE

\* line 190: _engine is None; no facade function has been called
InitApi ==
    [engine |-> FALSE, inited |-> FALSE, call |-> "none", early |-> FALSE,
     outcome |-> "none", value |-> None]

\* get_last_details(): an atomic read under _result_lock
get_last_details ==
    IF IsNone(last_result) THEN None ELSE Some(from_detection_result(The(last_result)))

\* ---- the API, called by one client thread --------------------------------
CallStartPolling ==
    /\ client = "ready"
    /\ client' = "start_polling"
    /\ UNCHANGED <<is_running, thread, stopIssued, loop, cbThreads, cycles,
                   detectorVars, resultVars, regVars, detVars>>

\* faulty variant: the early return is never taken
never_running == FALSE

\* line 43-44: the early return
already_running == is_running

StartPolling ==
    /\ client = "start_polling"
    /\ client' = "ready"
    /\ IF already_running
       THEN UNCHANGED <<is_running, thread, loop>>
       ELSE /\ FreeLoops # {}
            /\ LET l == CHOOSE x \in FreeLoops : \A y \in FreeLoops : x <= y IN
               /\ is_running' = TRUE
               /\ thread' = l
               /\ loop' = [loop EXCEPT ![l] = FreshLoop("top")]
    /\ UNCHANGED <<stopIssued, cbThreads, cycles, detectorVars, resultVars,
                   regVars, detVars>>

\* line 138-140: the flag is cleared; join only a thread that is alive
StopPolling ==
    /\ client = "ready"
    /\ is_running' = FALSE
    /\ client' = IF thread # 0 /\ Alive(thread) THEN "stop_join" ELSE "ready"
    /\ stopIssued' = TRUE
    /\ UNCHANGED <<thread, loop, cbThreads, cycles, detectorVars, resultVars,
                   regVars, detVars>>

\* join(timeout=5) returns: the thread has ended, or the timeout has expired
StopJoinReturn ==
    /\ client = "stop_join"
    /\ client' = "ready"
    /\ UNCHANGED <<is_running, thread, stopIssued, loop, cbThreads, cycles,
                   detectorVars, resultVars, regVars, detVars>>

\* faulty variant: no snapshot, a dispatch of the start callbacks iterates
\* over the list itself and meets what is appended meanwhile
AddStartCallbackSeenByDispatch ==
    /\ client = "ready"
    /\ Len(regKind) < MaxRegs
    /\ start_callbacks' = Append(start_callbacks, Len(regKind) + 1)
    /\ regKind' = Append(regKind, "start")
    /\ loop' = [l \in Loops |->
                  IF loop[l].pc = "spawn" /\ loop[l].change = Some(ACTIVE)
                  THEN [loop[l] EXCEPT !.todo = Append(loop[l].todo, Len(regKind) + 1)]
                  ELSE loop[l]]
    /\ UNCHANGED <<end_callbacks, flagVars, cbThreads, cycles,
                   detectorVars, resultVars, detVars>>

AddStartCallback ==
    /\ client = "ready"
    /\ Len(regKind) < MaxRegs
    /\ start_callbacks' = Append(start_callbacks, Len(regKind) + 1)
    /\ regKind' = Append(regKind, "start")
    /\ UNCHANGED <<end_callbacks, flagVars, loop, cbThreads, cycles,
                   detectorVars, resultVars, detVars>>

AddEndCallback ==
    /\ client = "ready"
    /\ Len(regKind) < MaxRegs
    /\ end_callbacks' = Append(end_callbacks, Len(regKind) + 1)
    /\ regKind' = Append(regKind, "end")
    /\ UNCHANGED <<start_callbacks, flagVars, loop, cbThreads, cycles,
                   detectorVars, resultVars, detVars>>

\* ---- _poll_loop, one thread per start -------------------------------------
\* detect() over the host situations of the engine
EngineResults == {detect(s) : s \in EngineSignals}

\* faulty variant: `while True`, the flag is not consulted
LoopTopUnconditional(l) ==
    /\ loop[l].pc = "top"
    /\ cycles < MaxCycles
    /\ cycles' = cycles + 1
    /\ \E r \in host :
          loop' = [loop EXCEPT ![l].pc = "compare",
                               ![l].result = Some(r)]
    /\ UNCHANGED <<flagVars, cbThreads, detectorVars, resultVars, regVars, detVars>>

\* line 67 and 70: the while test and, when the flag is set, a cycle's
\* detect() (detector.py line 141) over what the collaborators answer
LoopTop(l) ==
    /\ loop[l].pc = "top"
    /\ IF is_running
       THEN /\ cycles < MaxCycles
            /\ cycles' = cycles + 1
            /\ \E r \in host :
                  loop' = [loop EXCEPT ![l].pc = "compare",
                                       ![l].result = Some(r)]
       ELSE /\ loop' = [loop EXCEPT ![l].pc = "done"]
            /\ UNCHANGED cycles
    /\ UNCHANGED <<flagVars, cbThreads, detectorVars, resultVars, regVars, detVars>>

\* detector.py line 143-154: the compare and update under _state_lock
LoopCompare(l) ==
    /\ loop[l].pc = "compare"
    /\ LET new_state == state_of(The(loop[l].result)) IN
       /\ loop' = [loop EXCEPT ![l].pc = "store",
                               ![l].change = state_change_of(new_state, previous_state)]
       /\ previous_state' = previous_state_after(new_state, previous_state)
       /\ prevVerdict' = new_state
    /\ UNCHANGED <<balance, flagVars, cbThreads, cycles, resultVars, regVars, detVars>>

\* faulty variant: the store is left for after the dispatch
LoopStoreDeferred(l) ==
    /\ loop[l].pc = "store"
    /\ loop' = [loop EXCEPT ![l].pc = "branch", ![l].k = stores + 1]
    /\ UNCHANGED <<flagVars, cbThreads, cycles, detectorVars, resultVars,
                   regVars, detVars>>

\* faulty variant: only the first result is kept
LoopStoreFirstOnly(l) ==
    /\ loop[l].pc = "store"
    /\ last_result' = IF IsNone(last_result) THEN loop[l].result ELSE last_result
    /\ stores' = stores + 1
    /\ loop' = [loop EXCEPT ![l].pc = "branch", ![l].k = stores + 1]
    /\ UNCHANGED <<flagVars, cbThreads, cycles, detectorVars, regVars, detVars>>

\* line 73-74: the store under _result_lock
LoopStore(l) ==
    /\ loop[l].pc = "store"
    /\ last_result' = loop[l].result
    /\ stores' = stores + 1
    /\ loop' = [loop EXCEPT ![l].pc = "branch", ![l].k = stores + 1]
    /\ UNCHANGED <<flagVars, cbThreads, cycles, detectorVars, regVars, detVars>>

\* faulty variant: the two lists are interchanged
callbacks_swapped(state_change, starts, ends) ==
    IF state_change = Some(ACTIVE) THEN ends
    ELSE IF state_change = Some(INACTIVE) THEN starts
    ELSE <<>>

\* line 77-86: the list handed to _trigger_callbacks
callbacks_for(state_change, starts, ends) ==
    IF state_change = Some(ACTIVE) THEN starts
    ELSE IF state_change = Some(INACTIVE) THEN ends
    ELSE <<>>

\* line 77-86 and 111-115: the branch on state_change, and the copy of the
\* list under _callback_lock
LoopBranch(l) ==
    /\ loop[l].pc = "branch"
    /\ LET callback_list == callbacks_for(loop[l].change, start_callbacks, end_callbacks) IN
       loop' = [loop EXCEPT ![l].pc = IF callback_list = <<>> THEN "sleep" ELSE "spawn",
                            ![l].todo = callback_list,
                            ![l].nregs = Len(regKind)]
    /\ balance' = IF loop[l].change = Some(ACTIVE) THEN balance + 1
                  ELSE IF loop[l].change = Some(INACTIVE) THEN balance - 1
                  ELSE balance
    /\ UNCHANGED <<flagVars, cbThreads, cycles, previous_state, prevVerdict,
                   resultVars, regVars, detVars>>

\* faulty variant: the callback is handed the details of the result stored
\* last, not those of the cycle that dispatches it
LoopSpawnLastResult(l) ==
    /\ loop[l].pc = "spawn"
    /\ cbThreads' = cbThreads \cup
          { [reg |-> Head(loop[l].todo),
             details |-> from_detection_result(The(last_result)),
             k |-> loop[l].k, st |-> "ready"] }
    /\ loop' = [loop EXCEPT ![l].todo = Tail(loop[l].todo),
                            ![l].spawned = Append(loop[l].spawned, Head(loop[l].todo)),
                            ![l].pc = IF Tail(loop[l].todo) = <<>> THEN "sleep" ELSE "spawn"]
    /\ UNCHANGED <<flagVars, cycles, detectorVars, resultVars, regVars, detVars>>

\* line 118-124: one iteration, Thread(...).start(); the loop does not wait
LoopSpawn(l) ==
    /\ loop[l].pc = "spawn"
    /\ cbThreads' = cbThreads \cup
          { [reg |-> Head(loop[l].todo),
             details |-> from_detection_result(The(loop[l].result)),
             k |-> loop[l].k, st |-> "ready"] }
    /\ loop' = [loop EXCEPT ![l].todo = Tail(loop[l].todo),
                            ![l].spawned = Append(loop[l].spawned, Head(loop[l].todo)),
                            ![l].pc = IF Tail(loop[l].todo) = <<>> THEN "sleep" ELSE "spawn"]
    /\ UNCHANGED <<flagVars, cycles, detectorVars, resultVars, regVars, detVars>>

\* faulty variant: the loop joins the callback threads of its cycle first
LoopSleepJoined(l) ==
    /\ loop[l].pc = "sleep"
    /\ \A t \in cbThreads : t.k # loop[l].k
    /\ loop' = [loop EXCEPT ![l] = FreshLoop("top")]
    /\ UNCHANGED <<flagVars, cbThreads, cycles, detectorVars, resultVars,
                   regVars, detVars>>

\* line 92: asyncio.sleep(2) is over
LoopSleep(l) ==
    /\ loop[l].pc = "sleep"
    /\ loop' = [loop EXCEPT ![l] = FreshLoop("top")]
    /\ UNCHANGED <<flagVars, cbThreads, cycles, detectorVars, resultVars,
                   regVars, detVars>>

\* faulty variant: no handler, the exception leaves _poll_loop and the
\* thread ends
LoopRaiseEscapes(l) ==
    /\ \/ /\ loop[l].pc = "top" /\ is_running
          /\ cycles < MaxCycles
          /\ cycles' = cycles + 1
       \/ /\ loop[l].pc \in {"compare", "store", "branch", "spawn"}
          /\ UNCHANGED cycles
    /\ loop' = [loop EXCEPT ![l].pc = "done", ![l].todo = <<>>]
    /\ UNCHANGED <<flagVars, cbThreads, detectorVars, resultVars, regVars, detVars>>

\* line 68 and 88-89: a statement of the try block raises (detect() at line
\* 70, the compare, the store, _get_reason_str, the projection at line 112,
\* Thread.start() at line 124); except Exception logs it and the loop goes
\* on to its interval wait
LoopRaise(l) ==
    /\ \/ /\ loop[l].pc = "top" /\ is_running
          /\ cycles < MaxCycles
          /\ cycles' = cycles + 1
       \/ /\ loop[l].pc \in {"compare", "store", "branch", "spawn"}
          /\ UNCHANGED cycles
    /\ loop' = [loop EXCEPT ![l].pc = "sleep", ![l].todo = <<>>]
    /\ UNCHANGED <<flagVars, cbThreads, detectorVars, resultVars, regVars, detVars>>

LoopStep(l) ==
    \/ LoopTop(l)
    \/ LoopCompare(l)
    \/ LoopStore(l)
    \/ LoopBranch(l)
    \/ LoopSpawn(l)
    \/ LoopSleep(l)

\* ---- _safe_callback_wrapper, one thread per dispatched callback -----------
SetThread(t, u) ==
    /\ cbThreads' = (cbThreads \ {t}) \cup u
    /\ UNCHANGED <<flagVars, loop, cycles, detectorVars, resultVars, regVars, detVars>>

\* line 128: callback(details) is entered
CallbackInvoke(t) ==
    /\ t.st = "ready"
    /\ SetThread(t, {[t EXCEPT !.st = "running"]})

\* the callback returns; the thread ends
CallbackReturn(t) ==
    /\ t.st = "running"
    /\ SetThread(t, {})

\* the callback raises
CallbackRaise(t) ==
    /\ t.st = "running"
    /\ SetThread(t, {[t EXCEPT !.st = "raised"]})

\* faulty variant: the exception leaves the wrapper and ends the dispatch
\* of the loops that are starting callback threads
CallbackEscapes(t) ==
    /\ t.st = "raised"
    /\ cbThreads' = cbThreads \ {t}
    /\ loop' = [l \in Loops |->
                  IF loop[l].pc = "spawn"
                  THEN [loop[l] EXCEPT !.pc = "sleep", !.todo = <<>>]
                  ELSE loop[l]]
    /\ UNCHANGED <<flagVars, cycles, detectorVars, resultVars, regVars, detVars>>

\* line 129-130: except Exception: logged; the thread ends
CallbackCaught(t) ==
    /\ t.st = "raised"
    /\ SetThread(t, {})

Init ==
    /\ signals = Quiet("inactive", "inactive")
    /\ res = None
    /\ host = EngineResults
    /\ api = InitApi
    /\ InitEngine

Next ==
    \/ CallStartPolling
    \/ StartPolling
    \/ StopPolling
    \/ StopJoinReturn
    \/ AddStartCallback
    \/ AddEndCallback
    \/ \E l \in Loops : LoopTop(l)
    \/ \E l \in Loops : LoopCompare(l)
    \/ \E l \in Loops : LoopStore(l)
    \/ \E l \in Loops : LoopBranch(l)
    \/ \E l \in Loops : LoopSpawn(l)
    \/ \E l \in Loops : LoopSleep(l)
    \/ \E t \in cbThreads : CallbackInvoke(t)
    \/ \E t \in cbThreads : CallbackReturn(t)
    \/ \E t \in cbThreads : CallbackRaise(t)
    \/ \E t \in cbThreads : CallbackCaught(t)

Spec == Init /\ [][Next]_vars

(***************************************************************************)
(* detect() as a function of the collaborators' answers                    *)
(***************************************************************************)
InitDetect ==
    /\ signals \in DetectSignals(MaxProcs)
    /\ res = None
    /\ host = {}
    /\ api = InitApi
    /\ InitEngine

DetectCall ==
    /\ IsNone(res)
    /\ res' = Some(detect(signals))
    /\ UNCHANGED <<signals, host, api, engVars>>

NextDetect == DetectCall

SpecDetect == InitDetect /\ [][NextDetect]_vars

(***************************************************************************)
(* __init__.py: the module-level functions over the global engine          *)
(*                                                                         *)
(* api.engine: _engine is set; api.call, api.outcome, api.value: the       *)
(* latest call of a query or registration function, how it ended           *)
(* ("pending" while it runs, "returned", "registered") and what it         *)
(* returned.  History fields: inited, init() has been called; early, the   *)
(* latest call was made before any init().  The engine the variables       *)
(* describe is the one get_engine() creates on its first call.             *)
(***************************************************************************)
\* engine.py line 195-211: creates the engine when there is none; never fails
get_engine(a) == [a EXCEPT !.engine = TRUE]

Called(name, outcome, value) ==
    [get_engine(api) EXCEPT !.call = name, !.early = ~api.inited,
                            !.outcome = outcome, !.value = value]

\* line 60-61: get_engine(), then start_polling() is entered
FacadeInit ==
    /\ client = "ready"
    /\ client' = "start_polling"
    /\ api' = [get_engine(api) EXCEPT !.inited = TRUE, !.call = "init",
                                      !.early = FALSE, !.outcome = "none",
                                      !.value = None]
    /\ UNCHANGED <<signals, res, host, is_running, thread, stopIssued, loop,
                   cbThreads, cycles, detectorVars, resultVars, regVars>>

\* line 86: get_engine(), then engine.is_meeting_active() is entered
IsMeetingActiveCall ==
    /\ client = "ready"
    /\ client' = "is_meeting_active"
    /\ api' = Called("is_meeting_active", "pending", None)
    /\ UNCHANGED <<signals, res, host, is_running, thread, stopIssued, loop,
                   cbThreads, cycles, detectorVars, resultVars, regVars>>

\* faulty variant: the query goes through detect_with_state()
IsMeetingActiveWithState ==
    /\ client = "is_meeting_active"
    /\ client' = "ready"
    /\ \E r \in host :
          /\ api' = [api EXCEPT !.outcome = "returned",
                                !.value = Some(state_of(r) = ACTIVE)]
          /\ previous_state' = previous_state_after(state_of(r), previous_state)
    /\ UNCHANGED <<signals, res, host, is_running, thread, stopIssued, loop,
                   cbThreads, cycles, prevVerdict, balance, resultVars, regVars>>

\* engine.py line 150-151 and detector.py line 164-165: a detect() of its
\* own, mapped to a state and compared with ACTIVE
IsMeetingActiveReturn ==
    /\ client = "is_meeting_active"
    /\ client' = "ready"
    /\ \E r \in host :
          api' = [api EXCEPT !.outcome = "returned",
                             !.value = Some(state_of(r) = ACTIVE)]
    /\ UNCHANGED <<signals, res, host, is_running, thread, stopIssued, loop,
                   cbThreads, cycles, detectorVars, resultVars, regVars>>

\* line 120-121: get_engine().add_start_callback(callback)
OnMeetingStart ==
    /\ client = "ready"
    /\ Len(regKind) < MaxRegs
    /\ start_callbacks' = Append(start_callbacks, Len(regKind) + 1)
    /\ regKind' = Append(regKind, "start")
    /\ api' = Called("on_meeting_start", "registered", None)
    /\ UNCHANGED <<signals, res, host, end_callbacks, flagVars, loop, cbThreads,
                   cycles, detectorVars, resultVars>>

\* line 151-152: get_engine().add_end_callback(callback)
OnMeetingEnd ==
    /\ client = "ready"
    /\ Len(regKind) < MaxRegs
    /\ end_callbacks' = Append(end_callbacks, Len(regKind) + 1)
    /\ regKind' = Append(regKind, "end")
    /\ api' = Called("on_meeting_end", "registered", None)
    /\ UNCHANGED <<signals, res, host, start_callbacks, flagVars, loop, cbThreads,
                   cycles, detectorVars, resultVars>>

\* line 184-185: get_engine().get_last_details()
GetLastDetectionDetails ==
    /\ client = "ready"
    /\ api' = Called("get_last_detection_details", "returned", get_last_details)
    /\ UNCHANGED <<signals, res, host, flagVars, loop, cbThreads, cycles,
                   detectorVars, resultVars, regVars>>

\* the facade has no function that stops the engine
NextApi ==
    \/ FacadeInit
    \/ StartPolling
    \/ IsMeetingActiveCall
    \/ IsMeetingActiveReturn
    \/ OnMeetingStart
    \/ OnMeetingEnd
    \/ GetLastDetectionDetails
    \/ \E l \in Loops : LoopTop(l)
    \/ \E l \in Loops : LoopCompare(l)
    \/ \E l \in Loops : LoopStore(l)
    \/ \E l \in Loops : LoopBranch(l)
    \/ \E l \in Loops : LoopSpawn(l)
    \/ \E l \in Loops : LoopSleep(l)
    \/ \E t \in cbThreads : CallbackInvoke(t)
    \/ \E t \in cbThreads : CallbackReturn(t)
    \/ \E t \in cbThreads : CallbackRaise(t)
    \/ \E t \in cbThreads : CallbackCaught(t)

SpecApi == Init /\ [][NextApi]_vars

(***************************************************************************)
(* network.py as functions of the lsof text                                *)
(*                                                                         *)
(* signals is the input of one call: for kind "lsof" the process asked     *)
(* for, how the lsof command ended and its stdout; for kind "name" the     *)
(* NAME field.  res is the call made and what it gave.                     *)
(***************************************************************************)
ZoomUdpRow ==
    "zoom.us 101 u 20u IPv4 0x1 0t0 UDP 10.0.0.5:50001->144.195.35.10:8801 (ESTABLISHED)"
DanglingColonRow == "Finder 77 u 24u IPv4 0x6 0t0 TCP a.zoom.us:"

\* rows lsof prints, and rows that fail the structural checks
LsofRows ==
    { "COMMAND PID USER FD TYPE DEVICE SIZE/OFF NODE NAME",
      ZoomUdpRow,
      "zoom.us 101 u 21u IPv4 0x2 0t0 TCP 10.0.0.5:50002->a.zoom.us:443 (ESTABLISHED)",
      "zoom.us 101 u 22u IPv4 0x3 0t0 UDP 10.0.0.5:50003->b.zoom.us:3478",
      "zoom.us 101 u 23u IPv4 0x4 0t0 UDP 10.0.0.5:50004->144.195.35.10:8801 (CLOSED)",
      "zoom.us 101 u 25u IPv4 0x5 0t0 TCP a.zoom.us:443 (LISTEN)",
      "zoom 102 u 11u IPv4 0x7 0t0 TCP 10.0.0.5:50005->c.zoom.us:443 (ESTABLISHED)",
      "zoom.us 101 u",
      "  \t ",
      DanglingColonRow }

\* the texts of at most n rows, each row ended by a newline
LsofTexts(n) ==
    { join([i \in 1..Len(q) |-> q[i] \o "\n"], "") :
        q \in UNION { [1..k -> LsofRows] : k \in 0..n } }

\* NAME fields: with and without a local part, IPv4, IPv6, host name and
\* wildcard addresses, numeric, symbolic, empty and absent ports, and states
ConnectionNames ==
    LET locals == {"", "10.0.0.5:50001->", "[fe80::1]:50001->"}
        remotes == {"a.zoom.us", "[2001:db8::1]", "144.195.35.10", "*"}
        ports == {":8801", ":443", ":", ":http", ":80a", ""}
        states == {"", " (ESTABLISHED)", " (LISTEN)", " (CLOSED)", " (CLOSED LISTEN)"}
    IN  { l \o a \o p \o s : l \in locals, a \in remotes, p \in ports, s \in states }

NetInput(kind, process_name, run, stdout, name) ==
    [kind |-> kind, process_name |-> process_name, run |-> run,
     stdout |-> stdout, name |-> name]

NetInputs(n) ==
    { NetInput("lsof", p, "ok", t, "") : p \in {"zoom.us", "zoom", "Finder"},
                                         t \in LsofTexts(n) }
    \cup { NetInput("lsof", "zoom.us", r, "", "") : r \in {"nonzero", "timeout", "missing"} }
    \cup { NetInput("name", "", "", "", name) : name \in ConnectionNames }

InitNet ==
    /\ signals \in NetInputs(MaxRows)
    /\ res = None
    /\ host = {}
    /\ api = InitApi
    /\ InitEngine

Call(op, out) == Some([op |-> op, out |-> out])

ParseLsofOutputCall ==
    /\ signals.kind = "lsof" /\ signals.run = "ok"
    /\ IsNone(res)
    /\ res' = Call("parse_lsof_output", parse_lsof_output(signals.stdout))
    /\ UNCHANGED <<signals, host, api, engVars>>

DetectMeetingNetworkActivityCall ==
    /\ signals.kind = "lsof"
    /\ IsNone(res)
    /\ res' = Call("detect_meeting_network_activity",
                   detect_meeting_network_activity(
                       signals.process_name,
                       lsof_inventory(signals.run, signals.stdout)))
    /\ UNCHANGED <<signals, host, api, engVars>>

ParseConnectionNameCall ==
    /\ signals.kind = "name"
    /\ IsNone(res)
    /\ res' = Call("parse_connection_name", parse_connection_name(signals.name))
    /\ UNCHANGED <<signals, host, api, engVars>>

NextNet ==
    \/ ParseLsofOutputCall
    \/ DetectMeetingNetworkActivityCall
    \/ ParseConnectionNameCall

SpecNet == InitNet /\ [][NextNet]_vars


(***************************************************************************)
(* config.py as functions of the text: is_valid_google_meet_code and       *)
(* is_meeting_url applied to codes and URLs.                               *)
(***************************************************************************)
\* codes of one to four '-'-separated segments: segments of every length
\* from 0 to 6, with an uppercase letter, a digit, a punctuation character
\* and a lowercase letter outside ASCII
MeetCodes ==
    LET Segments == {"", "a", "ab", "abc", "abcde", "abcdef",
                     "Abc", "ab3", "a_c", NonAsciiLower \o "b"}
    IN  { a \o "-" \o b \o "-" \o c : a \in Segments, b \in Segments, c \in Segments }
        \cup { a \o "-" \o b : a \in Segments, b \in Segments }
        \cup Segments
        \cup { "abc-def-ghi", "ABC-def-ghi", "abc-def", "ab-cd-efghij",
               "abc-defg-hij", "ab-cd-ef-gh", "abcde-abcde-abcde", "abcdefghij" }

\* URLs of a host part and a path part: the Meet domain in several casings,
\* other providers, and paths with query strings, fragments, trailing
\* slashes, the excluded words and other providers' patterns
MeetingUrls ==
    LET Hosts == {"https://meet.google.com/", "https://MEET.Google.Com/",
                  "meet.google.com/", "https://meet.google.com", "https://zoom.us/j/",
                  "https://example.com/", "https://teams.live.com/v2/",
                  "https://example.com/?to=meet.google.com/"}
        Paths == {"", "abc-defg-hij", "ABC-Defg-hij", "landing", "new", "join", "Landing/",
                  "abc-defg-hij?authuser=1", "abc-defg-hij#x", "abc-defg-hij#x?y",
                  "abc-defg-hij/", "abc-defg-hij//", "/abc-defg-hij", "abc-def",
                  "1234567890", "lookup/abc", "new?zoom.us/j/1", "abc-def/zoom.us/j/1",
                  "?zoom.us/j/1", "#", "?", "//", "join/?x", "abc-defg-hij/?x",
                  "landing/meet.google.com/abc-defg-hij",
                  "abc-defg-hij/meet.google.com/new",
                  NonAsciiUpper \o "b-cde-fgh", "webex.com/meet"}
    IN  { h \o p : h \in Hosts, p \in Paths }

InitConfig ==
    /\ signals \in { [kind |-> "code", text |-> c] : c \in MeetCodes }
                   \cup { [kind |-> "url", text |-> u] : u \in MeetingUrls }
    /\ res = None
    /\ host = {}
    /\ api = InitApi
    /\ InitEngine

IsValidGoogleMeetCodeCall ==
    /\ signals.kind = "code"
    /\ IsNone(res)
    /\ res' = Call("is_valid_google_meet_code", is_valid_google_meet_code(signals.text))
    /\ UNCHANGED <<signals, host, api, engVars>>

IsMeetingUrlCall ==
    /\ signals.kind = "url"
    /\ IsNone(res)
    /\ res' = Call("is_meeting_url", is_meeting_url(signals.text))
    /\ UNCHANGED <<signals, host, api, engVars>>

NextConfig ==
    \/ IsValidGoogleMeetCodeCall
    \/ IsMeetingUrlCall

SpecConfig == InitConfig /\ [][NextConfig]_vars
(***************************************************************************)
(* The scheduling the liveness properties rest on: every sampling-loop     *)
(* thread and every started callback thread keeps being scheduled, and     *)
(* join(timeout=5) returns.  Nothing is assumed of a callback once it has  *)
(* been entered: it may never return.  The client calls what it likes,     *)
(* when it likes, but leaves a stopped loop the time to end before it      *)
(* starts the engine again.                                                *)
(***************************************************************************)
Fairness ==
    /\ \A l \in Loops : WF_vars(LoopStep(l))
    /\ WF_vars(StopJoinReturn)
    /\ WF_vars(\E t \in cbThreads : CallbackInvoke(t))
    /\ WF_vars(\E t \in cbThreads : CallbackCaught(t))

\* a client that starts a stopped engine again only once its loop has ended
PatientCallStartPolling ==
    /\ is_running \/ LiveLoops = {}
    /\ CallStartPolling

FairNext ==
    \/ PatientCallStartPolling
    \/ StartPolling
    \/ StopPolling
    \/ StopJoinReturn
    \/ AddStartCallback
    \/ AddEndCallback
    \/ \E l \in Loops : LoopTop(l)
    \/ \E l \in Loops : LoopCompare(l)
    \/ \E l \in Loops : LoopStore(l)
    \/ \E l \in Loops : LoopBranch(l)
    \/ \E l \in Loops : LoopSpawn(l)
    \/ \E l \in Loops : LoopSleep(l)
    \/ \E t \in cbThreads : CallbackInvoke(t)
    \/ \E t \in cbThreads : CallbackReturn(t)
    \/ \E t \in cbThreads : CallbackRaise(t)
    \/ \E t \in cbThreads : CallbackCaught(t)

FairSpec == Init /\ [][FairNext]_vars /\ Fairness

InCycle == {"compare", "store", "branch", "spawn"}

\* the engine with cycles whose statements may raise
NextRaising ==
    \/ FairNext
    \/ \E l \in Loops : LoopRaise(l)

FairnessRaising ==
    /\ \A l \in Loops : WF_vars(LoopStep(l) \/ LoopRaise(l))
    /\ WF_vars(StopJoinReturn)
    /\ WF_vars(\E t \in cbThreads : CallbackInvoke(t))
    /\ WF_vars(\E t \in cbThreads : CallbackCaught(t))

SpecRaising == Init /\ [][NextRaising]_vars /\ FairnessRaising

\* the engine in a host whose situation changes: a sample is detect() over
\* what the collaborators answer at the time of the sample
InitHost ==
    /\ signals = Quiet("inactive", "inactive")
    /\ res = None
    /\ host = {detect(signals)}
    /\ api = InitApi
    /\ InitEngine

\* a meeting starts or ends on the host, in a native app or in a browser
HostChanges ==
    /\ \E s \in EngineSignals \ {signals} :
          /\ signals' = s
          /\ host' = {detect(s)}
    /\ UNCHANGED <<res, api, engVars>>

NextHost ==
    \/ FairNext
    \/ HostChanges

SpecHost == InitHost /\ [][NextHost]_vars /\ Fairness

(***************************************************************************)
(* C1  detect_with_state() returns a transition iff the state of its       *)
(* verdict differs from the state of the previous call's verdict (INACTIVE *)
(* before the first call), and the transition is the new state.            *)
(***************************************************************************)
C1_TransitionIffVerdictChanged ==
    [][\A l \in Loops :
          (loop[l].pc = "compare" /\ loop'[l].pc = "store")
          => LET new_state == state_of(The(loop[l].result)) IN
             loop'[l].change =
                 IF new_state # prevVerdict THEN Some(new_state) ELSE None]_vars

\* a second call whose verdict is again active has returned no transition
C1_Witness ==
    \E l \in Loops :
        /\ loop[l].pc = "store"
        /\ state_of(The(loop[l].result)) = ACTIVE
        /\ loop[l].change = None

(***************************************************************************)
(* C2  A cycle whose transition is ACTIVE starts one thread for every      *)
(* start callback registered when the list was copied and none for an end  *)
(* callback; INACTIVE likewise for the end callbacks; no transition, no    *)
(* thread.  No cycle reaches its interval wait with a dispatch left out.   *)
(***************************************************************************)
RegsOfKind(kind, n) ==
    SelectSeq([i \in 1..n |-> i], LAMBDA i : regKind[i] = kind)

ExpectedDispatch(change, n) ==
    IF change = Some(ACTIVE) THEN RegsOfKind("start", n)
    ELSE IF change = Some(INACTIVE) THEN RegsOfKind("end", n)
    ELSE <<>>

C3_StoredBeforeCallback ==
    \A t \in cbThreads :
        /\ t.k \in 1..stores
        /\ IsSome(get_last_details)
        /\ t.k = stores => get_last_details = Some(t.details)

\* a callback is running and the last result is still its own cycle's
C3_Witness ==
    \E t \in cbThreads :
        /\ t.st = "running"
        /\ t.k = stores
        /\ get_last_details = Some(t.details)

(***************************************************************************)
(* C4  With a callback that has been entered and has not returned, every   *)
(* sampling loop still finishes the cycle it is in, then begins another    *)
(* one (unless the engine is stopped or the model's cycle bound is         *)
(* reached), and every other started callback thread is entered.           *)
(***************************************************************************)
Stalled == \E t \in cbThreads : t.st = "running"

ReadyFor(r, k) == \E t \in cbThreads : t.reg = r /\ t.k = k /\ t.st = "ready"

C4_BlockedCallbackDoesNotStopLoop ==
    /\ \A l \in Loops :
          (Stalled /\ loop[l].pc \in InCycle) ~> (loop[l].pc = "sleep")
    /\ \A l \in Loops :
          (Stalled /\ loop[l].pc = "sleep")
             ~> (loop[l].pc = "compare" \/ ~is_running \/ cycles = MaxCycles)
    /\ \A r \in 1..MaxRegs : \A k \in 1..MaxCycles :
          (Stalled /\ ReadyFor(r, k)) ~> ~ReadyFor(r, k)

\* a callback of an earlier cycle is still running while a loop is in a later cycle
C4_Witness ==
    \E t \in cbThreads : \E l \in Loops :
        /\ t.st = "running"
        /\ loop[l].pc \in {"branch", "spawn", "sleep"}
        /\ loop[l].k > t.k

(***************************************************************************)
(* C5  A callback that raises changes nothing but its own thread: neither  *)
(* the raise nor its handling touches the sampling loops, the running      *)
(* flag, the previous state, the last result, the callback lists or any    *)
(* other callback thread.                                                  *)
(***************************************************************************)
FailureStep(t) ==
    \/ t.st = "running" /\ t \notin cbThreads' /\ [t EXCEPT !.st = "raised"] \in cbThreads'
    \/ t.st = "raised" /\ t \notin cbThreads'

C5_CallbackFailureIsolated ==
    [][\A t \in cbThreads :
          FailureStep(t)
          => /\ UNCHANGED <<loop, is_running, thread, previous_state, last_result,
                            start_callbacks, end_callbacks>>
             /\ cbThreads \ {t} \subseteq cbThreads']_vars

\* a callback has raised while a loop still has a callback of the same
\* transition to start
C5_Witness ==
    \E t \in cbThreads : \E l \in Loops :
        /\ t.st = "raised"
        /\ loop[l].pc = "spawn"
        /\ loop[l].k = t.k

(***************************************************************************)
(* C6  detect() attributes the verdict to the first listed meeting process *)
(* that the browser check does not report as a browser and that has        *)
(* meeting connections; only if there is none, to the first meeting URL in *)
(* browser order, then tab order; else the verdict is inactive.            *)
(***************************************************************************)
ListedNames(sig) == IF sig.procs.ok THEN sig.procs.names ELSE <<>>

Qualifies(sig, i) ==
    LET name == ListedNames(sig)[i] IN
    /\ is_meeting_process(name)
    /\ ~(sig.bundle[i] # "raise" /\ is_browser_process(name, sig.bundle[i]))
    /\ sig.lsof[i].ok
    /\ \E c \in 1..Len(sig.lsof[i].conns) :
          /\ sig.lsof[i].conns[c].process_name = name
          /\ is_meeting_connection(sig.lsof[i].conns[c])

NativeCandidates(sig) == {i \in 1..Len(ListedNames(sig)) : Qualifies(sig, i)}

\* (browser, tab) positions of the meeting URLs, when the tab lookup succeeded
TabCandidates(sig) ==
    IF sig.tabs.ok
    THEN UNION { { <<b, j>> : j \in {x \in 1..Len(sig.tabs.lists[b]) :
                                      is_meeting_url(sig.tabs.lists[b][x])} } :
                 b \in 1..Len(TAB_BROWSERS) }
    ELSE {}

FirstTab(sig) ==
    CHOOSE p \in TabCandidates(sig) :
        \A q \in TabCandidates(sig) : p[1] < q[1] \/ (p[1] = q[1] /\ p[2] <= q[2])

C6_TierPrecedence ==
    IsSome(res) =>
        LET r == The(res) IN
        IF NativeCandidates(signals) # {}
        THEN LET i == CHOOSE x \in NativeCandidates(signals) :
                         \A y \in NativeCandidates(signals) : x <= y
             IN  /\ r.reason = NATIVE_APP_WITH_NETWORK
                 /\ r.reason_app_name = Some(ListedNames(signals)[i])
        ELSE IF TabCandidates(signals) # {}
        THEN /\ r.reason = BROWSER_WITH_MEETING_URL
             /\ r.reason_browser_name = Some(TAB_BROWSERS[FirstTab(signals)[1]])
             /\ r.reason_url =
                   Some(signals.tabs.lists[FirstTab(signals)[1]][FirstTab(signals)[2]])
        ELSE r.reason = REASON_NONE

\* a native meeting app with meeting traffic and a browser tab on a meeting
\* URL in one cycle: the result names the native app
C6_Witness ==
    /\ IsSome(res)
    /\ NativeCandidates(signals) # {}
    /\ TabCandidates(signals) # {}
    /\ The(res).reason = NATIVE_APP_WITH_NETWORK

(***************************************************************************)
(* C7  In every result of detect(): active iff the reason is not NONE; the *)
(* app name is set iff the reason is NATIVE_APP_WITH_NETWORK; browser name *)
(* and URL are set iff it is BROWSER_WITH_MEETING_URL; never both.         *)
(***************************************************************************)
C7_ResultInvariant ==
    IsSome(res) =>
        LET r == The(res) IN
        /\ r.reason \in DetectionReason
        /\ r.is_meeting_active <=> r.reason # REASON_NONE
        /\ IsSome(r.reason_app_name) <=> r.reason = NATIVE_APP_WITH_NETWORK
        /\ IsSome(r.reason_browser_name) <=> r.reason = BROWSER_WITH_MEETING_URL
        /\ IsSome(r.reason_url) <=> r.reason = BROWSER_WITH_MEETING_URL
        /\ ~(IsSome(r.reason_app_name) /\ IsSome(r.reason_browser_name))

\* a result with the browser reason
C7_Witness ==
    /\ IsSome(res)
    /\ The(res).reason = BROWSER_WITH_MEETING_URL
    /\ The(res).is_meeting_active

(***************************************************************************)
(* C8  Whatever fails, detect() returns a result in which the failed       *)
(* signal counts as false or empty: a failed microphone or camera check is *)
(* inactive, a failed process listing names no native app, a failed tab    *)
(* lookup names no browser, a process whose classification failed is not   *)
(* named; and a listed process that qualifies yields an active verdict     *)
(* whatever failed for the processes listed before it.                     *)
(***************************************************************************)
C8_FailuresBecomeDefaults ==
    IsSome(res) =>
        LET r == The(res) IN
        /\ r.is_meeting_active \in BOOLEAN
        /\ r.reason \in DetectionReason
        /\ signals.mic = "raise" => ~r.microphone_active
        /\ signals.cam = "raise" => ~r.camera_active
        /\ ~signals.procs.ok => r.reason # NATIVE_APP_WITH_NETWORK
        /\ ~signals.tabs.ok => r.reason # BROWSER_WITH_MEETING_URL
        /\ r.reason = NATIVE_APP_WITH_NETWORK
           => \E i \in 1..Len(ListedNames(signals)) :
                 /\ ListedNames(signals)[i] = The(r.reason_app_name)
                 /\ signals.lsof[i].ok
        /\ (\E i \in 1..Len(ListedNames(signals)) : Qualifies(signals, i))
           => r.is_meeting_active

\* the classification failed for the first process, the second one has
\* meeting connections, and the verdict is active; the media checks failed too
C8_Witness ==
    /\ IsSome(res)
    /\ signals.mic = "raise"
    /\ signals.cam = "raise"
    /\ ~signals.tabs.ok
    /\ Len(ListedNames(signals)) = 2
    /\ is_meeting_process(ListedNames(signals)[1])
    /\ signals.bundle[1] = "raise"
    /\ ~signals.lsof[1].ok
    /\ Qualifies(signals, 2)
    /\ The(res).is_meeting_active

(***************************************************************************)
(* C9  Until stop_polling() is called, there is exactly one sampling loop  *)
(* when the engine is running and none before, and a start_polling() call  *)
(* on a running engine changes nothing.                                    *)
(***************************************************************************)
C9_StartIsNoOpWhenRunning ==
    /\ [](~stopIssued => Cardinality(LiveLoops) = IF is_running THEN 1 ELSE 0)
    /\ [][(client = "start_polling" /\ client' = "ready" /\ is_running)
          => UNCHANGED <<is_running, thread, loop, previous_state, last_result,
                         start_callbacks, end_callbacks, cbThreads>>]_vars

\* start_polling() is being called again on a running engine that was never stopped
C9_Witness ==
    /\ client = "start_polling"
    /\ is_running
    /\ ~stopIssued
    /\ cycles > 0
    /\ Cardinality(LiveLoops) = 1

(***************************************************************************)
(* C10  stop_polling() clears the flag and touches no loop; its wait ends; *)
(* a loop that finds the flag cleared at the top of its cycle ends, and a  *)
(* cycle begins only with the flag set; with the flag cleared every loop   *)
(* ends unless the engine is started again; a cycle in progress reaches    *)
(* its interval wait (store and dispatch done) with the flag cleared too.  *)
(***************************************************************************)
C10_StopIsCooperative ==
    /\ [][(client = "ready" /\ client' = "stop_join")
          => ~is_running' /\ UNCHANGED <<loop, cbThreads, last_result, previous_state>>]_vars
    /\ [][\A l \in Loops :
            /\ (loop[l].pc = "top" /\ ~is_running /\ loop'[l] # loop[l])
               => loop'[l].pc = "done"
            /\ (loop[l].pc = "top" /\ loop'[l].pc = "compare") => is_running]_vars
    /\ (client = "stop_join") ~> (client = "ready")
    /\ \A l \in Loops : (~is_running /\ Alive(l)) ~> (is_running \/ ~Alive(l))
    /\ \A l \in Loops :
          (~is_running /\ loop[l].pc \in InCycle) ~> (loop[l].pc = "sleep")

\* the flag is cleared while a cycle is dispatching its callbacks
C10_Witness ==
    /\ ~is_running
    /\ stopIssued
    /\ \E l \in Loops : loop[l].pc = "spawn"


(***************************************************************************)
(* C11  A query or registration function called before init() is a usage   *)
(* error: the call neither returns a value nor registers the callback.     *)
(* The code has no such check: get_engine() creates the engine on the      *)
(* first call of any function, and the call goes through.                  *)
(***************************************************************************)
C11_EarlyCallIsRefused ==
    api.early => api.outcome \notin {"returned", "registered"}

(***************************************************************************)
(* C12  A call of is_meeting_active() leaves the detector's previous       *)
(* state, the engine's last result, the sampling loops, the callback       *)
(* threads and the registrations as they are, and previous state is        *)
(* written by the compare of a sampling cycle only.                        *)
(***************************************************************************)
\* a step of the client that enters or leaves is_meeting_active()
QueryStep == client' # client /\ "is_meeting_active" \in {client, client'}

C12_QueryIsNotEdgeTriggered ==
    [][/\ QueryStep
          => UNCHANGED <<previous_state, prevVerdict, last_result, stores, loop,
                         cbThreads, cycles, start_callbacks, end_callbacks,
                         regKind, is_running, thread>>
       /\ previous_state' # previous_state
          => \E l \in Loops : loop[l].pc = "compare" /\ loop'[l].pc = "store"]_vars

\* a query has returned a state that differs from the detector's previous
\* state while a sampling loop is in the middle of a cycle
C12_Witness ==
    /\ api.call = "is_meeting_active"
    /\ api.outcome = "returned"
    /\ The(api.value) # (previous_state = ACTIVE)
    /\ stores > 0
    /\ \E l \in Loops : loop[l].pc \in InCycle

(***************************************************************************)
(* C13  get_last_details() is empty as long as no cycle has stored a       *)
(* result; every store makes it the projection of the storing cycle's      *)
(* result; no other step changes it; and get_last_detection_details(),     *)
(* called at any point of a sampling cycle, returns it as it is then.      *)
(***************************************************************************)
C13_LastDetailsAreLatestStore ==
    /\ [](stores = 0 => IsNone(get_last_details))
    /\ [][/\ stores' # stores
             => \E l \in Loops :
                   /\ loop[l].pc = "store" /\ loop'[l].pc = "branch"
                   /\ get_last_details'
                        = Some(from_detection_result(The(loop[l].result)))
          /\ stores' = stores => get_last_details' = get_last_details
          /\ (api' # api /\ api'.call = "get_last_detection_details")
             => api'.value = get_last_details]_vars

\* the call has returned the details of the second store, while the loop
\* that stored them has not ended its cycle
C13_Witness ==
    /\ api.call = "get_last_detection_details"
    /\ api.outcome = "returned"
    /\ stores = 2
    /\ \E l \in Loops :
          /\ loop[l].k = stores
          /\ api.value = Some(from_detection_result(The(loop[l].result)))
          /\ The(api.value).active

(***************************************************************************)
(* C14  An end callback is called with the details of a detection made     *)
(* while the meeting was still on: they are active details and their       *)
(* app_name names the meeting that ended.  The code hands the end          *)
(* callbacks the result of the cycle that found the meeting over.          *)
(***************************************************************************)
C14_EndCallbackGetsEndedMeeting ==
    \A t \in cbThreads :
       regKind[t.reg] = "end" => t.details.active /\ IsSome(t.details.app_name)

(***************************************************************************)
(* C15  The details from_detection_result makes of a result of detect():   *)
(* active iff the reason string is not "None"; a meeting URL only with a   *)
(* BrowserWithMeetingUrl reason; the weights are 3, 2, 2, 1; and the score *)
(* is the sum of the weights of the signals the breakdown reports active.  *)
(***************************************************************************)
WeightIfActive(signal) == IF signal.active THEN signal.weight ELSE 0

Verdict(r) ==
    <<r.is_meeting_active, r.reason, r.meeting_app_name, r.meeting_app_detected,
      r.meeting_window_detected, r.reason_app_name, r.reason_browser_name,
      r.reason_url>>

PublicVerdict(d) == <<d.active, d.reason, d.app_name, d.meeting_url>>

C16_FlagsDoNotDriveVerdict ==
    IsSome(res) =>
        LET r == The(res)
            base == detect([signals EXCEPT !.mic = "inactive", !.cam = "inactive"])
        IN  /\ Verdict(r) = Verdict(base)
            /\ PublicVerdict(from_detection_result(r))
                 = PublicVerdict(from_detection_result(base))
            /\ \A p \in MeetingState :
                  /\ state_change_of(state_of(r), p) = state_change_of(state_of(base), p)
                  /\ \A starts, ends \in {<<>>, <<1>>} :
                        callbacks_for(state_change_of(state_of(r), p), starts, ends)
                          = callbacks_for(state_change_of(state_of(base), p), starts, ends)

\* an active verdict reached with the microphone in use, whose score is
\* not that of the same situation with microphone and camera off
C16_Witness ==
    /\ IsSome(res)
    /\ The(res).is_meeting_active
    /\ signals.mic = "active"
    /\ The(res).score
         # detect([signals EXCEPT !.mic = "inactive", !.cam = "inactive"]).score

(***************************************************************************)
(* C17  When detect_meeting_network_activity(p) returns, it has counted    *)
(* the connections of the inventory whose process name is p exactly and    *)
(* that are meeting traffic: a meeting domain in the remote address with   *)
(* state ESTABLISHED or a video port, or UDP to port 8801 in a state other *)
(* than CLOSED.  has_meeting is count > 0, and there is one detail per     *)
(* counted connection.  The text of one UDP row of "zoom.us" to port 8801, *)
(* ESTABLISHED, gives has_meeting for "zoom.us".                           *)
(***************************************************************************)
ToMeetingDomain(c) ==
    \E i \in 1..Len(MEETING_DOMAINS) : Contains(c.remote_address, MEETING_DOMAINS[i])

MeetingTraffic(c) ==
    \/ ToMeetingDomain(c) /\ (c.state = "ESTABLISHED" \/ c.remote_port \in MEETING_VIDEO_PORTS)
    \/ c.protocol = "UDP" /\ c.remote_port = 8801 /\ c.state # "CLOSED"

Classified == IsSome(res) /\ The(res).op = "detect_meeting_network_activity"

C17_ClassifierCountsMeetingTraffic ==
    Classified =>
        LET out == The(res).out
            p == signals.process_name
            inventory == parse_lsof_output(signals.stdout).conns
            counted == SelectSeq(inventory,
                                 LAMBDA c : c.process_name = p /\ MeetingTraffic(c))
        IN  /\ out.ok
               => /\ out.count = Len(counted)
                  /\ out.has_meeting <=> out.count > 0
                  /\ Len(out.details) = out.count
                  /\ \A i \in 1..Len(counted) :
                        /\ Contains(out.details[i], counted[i].remote_address)
                        /\ Contains(out.details[i], p)
            /\ (p = "zoom.us" /\ signals.run = "ok" /\ signals.stdout = ZoomUdpRow \o "\n")
               => out.ok /\ out.has_meeting

\* two rows of zoom.us, one of them meeting traffic, and a row of "zoom":
\* asked for "zoom.us", one connection is counted
C17_Witness ==
    /\ Classified
    /\ signals.process_name = "zoom.us"
    /\ The(res).out.ok
    /\ The(res).out.count = 1
    /\ The(res).out.details = <<"UDP zoom.us 144.195.35.10:8801 (ESTABLISHED)">>
    /\ Len(parse_lsof_output(signals.stdout).conns) = 2

(***************************************************************************)
(* C18  detect_meeting_network_activity fails exactly when the inventory   *)
(* could not be obtained (the command is missing, timed out or failed),    *)
(* and then with a RuntimeError; when the inventory was obtained and holds *)
(* no row of the process it returns (False, 0, []).  The code also fails   *)
(* when an obtained inventory holds a row whose parse raises.              *)
(***************************************************************************)
C18_FailsOnlyWithoutInventory ==
    Classified =>
        LET out == The(res).out
            inventory == lsof_inventory(signals.run, signals.stdout)
        IN  /\ ~out.ok <=> signals.run # "ok"
            /\ ~out.ok => inventory.error = "RuntimeError"
            /\ (signals.run = "ok"
                /\ \A line \in {l \in LsofRows : Contains(signals.stdout, l \o "\n")} :
                      ~startswith(line, signals.process_name \o " "))
               => out = [ok |-> TRUE, has_meeting |-> FALSE, count |-> 0,
                         details |-> <<>>]

(***************************************************************************)
(* C19  parse_lsof_output fails on no text: it returns one Connection for  *)
(* each row that is not blank, does not start with "COMMAND" and has at    *)
(* least 9 fields, and nothing for the other rows.  The code raises        *)
(* IndexError at a row whose NAME field ends in ':'.                       *)
(***************************************************************************)
WellFormed(line) ==
    /\ ~startswith(line, "COMMAND")
    /\ Len(SplitWs(line)) >= 9
    /\ parse_connection_name(join(SubSeq(SplitWs(line), 9, Len(SplitWs(line))), " ")).ok

Structured(line) == ~startswith(line, "COMMAND") /\ Len(SplitWs(line)) >= 9

C19_ParseNeverFails ==
    (IsSome(res) /\ The(res).op = "parse_lsof_output") =>
        LET out == The(res).out
            lines == splitlines(signals.stdout)
        IN  /\ out.ok
            /\ Len(out.conns) >= Len(SelectSeq(lines, WellFormed))
            /\ Len(out.conns) <= Len(SelectSeq(lines, Structured))

(***************************************************************************)
(* C20  parse_connection_name: the remote part is what follows "->", or    *)
(* the whole name; its first field is split at its last ':' into address   *)
(* and port text; the port is the integer the port text denotes, 0 when    *)
(* it denotes none or is empty; the state is the first of ESTABLISHED,     *)
(* LISTEN, CLOSED that occurs in the name, else UNKNOWN.  The code splits  *)
(* at the first ':' and raises IndexError on an empty port text.           *)
(***************************************************************************)
\* the position of the last sub in s, 0 when absent
FindLast(s, sub) ==
    IF Contains(s, sub)
    THEN CHOOSE i \in 1..(Len(s) - Len(sub) + 1) :
            /\ SubSeq(s, i, i + Len(sub) - 1) = sub
            /\ \A j \in (i + 1)..(Len(s) - Len(sub) + 1) : SubSeq(s, j, j + Len(sub) - 1) # sub
    ELSE 0

C20_SplitsAtLastColon ==
    (IsSome(res) /\ The(res).op = "parse_connection_name") =>
        LET out == The(res).out
            name == signals.name
            remote_part == IF Contains(name, "->") THEN AfterFirst(name, "->") ELSE name
            first_field == IF SplitWs(remote_part) = <<>> THEN ""
                           ELSE SplitWs(remote_part)[1]
            colon == FindLast(first_field, ":")
            port_text == SubSeq(first_field, colon + 1, Len(first_field))
        IN  /\ out.ok
            /\ out.state = (IF Contains(name, "ESTABLISHED") THEN "ESTABLISHED"
                            ELSE IF Contains(name, "LISTEN") THEN "LISTEN"
                            ELSE IF Contains(name, "CLOSED") THEN "CLOSED"
                            ELSE "UNKNOWN")
            /\ colon > 0
               => /\ out.remote_address = SubSeq(first_field, 1, colon - 1)
                  /\ out.remote_port = (IF IsSome(int_of(port_text))
                                        THEN The(int_of(port_text)) ELSE 0)

(***************************************************************************)
(* C21: is_valid_google_meet_code(code) is true if and only if code splits *)
(* at '-' into exactly three segments, each of 2 to 5 characters, each     *)
(* made only of the lowercase ASCII letters a-z, with 8 to 15 letters in   *)
(* all; an uppercase letter, a digit or any character outside a-z and '-'  *)
(* makes it false.  The code tests the letters with str.isalpha() and      *)
(* str.islower(), which accept lowercase letters outside ASCII.            *)
(***************************************************************************)
C21_CodeIsThreeAsciiSegments ==
    (IsSome(res) /\ The(res).op = "is_valid_google_meet_code") =>
        LET code == signals.text
            segments == Split(code, "-")
            a_to_z(s) == \A i \in 1..Len(s) : Contains("abcdefghijklmnopqrstuvwxyz", CharAt(s, i))
        IN  The(res).out <=>
                /\ Len(segments) = 3
                /\ \A i \in 1..3 : Len(segments[i]) \in 2..5 /\ a_to_z(segments[i])
                /\ Len(segments[1]) + Len(segments[2]) + Len(segments[3]) \in 8..15

(***************************************************************************)
(* C22: is_meeting_url(url) works on the lower-cased URL.  When that       *)
(* contains "meet.google.com/", the result is is_valid_google_meet_code of *)
(* the text after the first marker, cut before the first '?' or '#' and    *)
(* with its trailing slashes removed, and false when that text is          *)
(* "landing", "new", "join" or empty, whatever else the URL contains;      *)
(* otherwise the result is true exactly when the lower-cased URL contains  *)
(* one of the other providers' substrings.                                 *)
(***************************************************************************)
C22_MeetBranchDecidesAlone ==
    (IsSome(res) /\ The(res).op = "is_meeting_url") =>
        LET l == Lower(signals.text)
            marker == "meet.google.com/"
            rest == SubSeq(l, Find(l, marker) + Len(marker), Len(l))
            cuts == {i \in 1..Len(rest) : CharAt(rest, i) \in {"?", "#"}}
            cut == IF cuts = {} THEN Len(rest) + 1
                   ELSE CHOOSE i \in cuts : \A j \in cuts : i <= j
            kept == CHOOSE n \in 0..(cut - 1) :
                        /\ n = 0 \/ CharAt(rest, n) # "/"
                        /\ \A j \in (n + 1)..(cut - 1) : CharAt(rest, j) = "/"
            path == SubSeq(rest, 1, kept)
        IN  IF Find(l, marker) > 0
            THEN The(res).out =
                    (path \notin {"landing", "new", "join", ""}
                     /\ is_valid_google_meet_code(path))
            ELSE The(res).out =
                    (\E i \in 1..Len(MEETING_URL_PATTERNS) :
                        Contains(l, MEETING_URL_PATTERNS[i]))

\* a Meet URL whose path is an excluded word and which also holds another
\* provider's pattern has been classified
C22_Witness ==
    /\ IsSome(res) /\ The(res).op = "is_meeting_url"
    /\ signals.text = "https://meet.google.com/new?zoom.us/j/1"
    /\ ~The(res).out

C24_TierOneNamesNoBrowser ==
    (IsSome(res) /\ The(res).reason = NATIVE_APP_WITH_NETWORK) =>
        \E i \in 1..Len(signals.procs.names) :
           /\ Some(signals.procs.names[i]) = The(res).reason_app_name
           /\ \/ signals.bundle[i] = "raise"
              \/ /\ signals.bundle[i] = "undetermined"
                 /\ ~is_browser_process_pattern(signals.procs.names[i])

\* a browser whose bundle lookup established nothing, listed first, matches
\* a meeting-app name and has meeting connections; the result names the
\* native app listed after it
C24_Witness ==
    /\ IsSome(res)
    /\ The(res).reason = NATIVE_APP_WITH_NETWORK
    /\ signals.procs.names = <<"Google Chrome", "zoom.us">>
    /\ is_meeting_process("Google Chrome")
    /\ signals.bundle[1] = "undetermined"
    /\ native_has_network("Google Chrome", signals.lsof[1])
    /\ The(res).reason_app_name = Some("zoom.us")

(***************************************************************************)
(* C25  An exception raised in a sampling cycle (by the detection, the     *)
(* store, the projection or the start of a callback thread) does not end   *)
(* the loop: a loop thread ends only by finding the flag cleared at the    *)
(* top of a cycle; a cycle, failed or not, reaches the interval wait; and  *)
(* from the interval wait, while the engine is running, the next cycle     *)
(* begins (up to the model's cycle bound).                                 *)
(***************************************************************************)
C25_CycleFailureIsContained ==
    /\ [][\A l \in Loops :
            (loop[l].pc # "done" /\ loop'[l].pc = "done")
               => (loop[l].pc = "top" /\ ~is_running)]_vars
    /\ \A l \in Loops : (loop[l].pc \in InCycle) ~> (loop[l].pc = "sleep")
    /\ \A l \in Loops : \A c \in 0..(MaxCycles - 1) :
          (is_running /\ loop[l].pc = "sleep" /\ cycles = c)
             ~> (~is_running \/ cycles > c)

\* a cycle that found a meeting started failed while it was starting its
\* callback threads, and its loop is at the interval wait with the engine
\* running
C25_Witness ==
    \E l \in Loops :
       /\ is_running
       /\ loop[l].pc = "sleep"
       /\ loop[l].change = Some(ACTIVE)
       /\ loop[l].nregs > 0
       /\ Len(loop[l].spawned) < Len(callbacks_for(loop[l].change, start_callbacks, end_callbacks))
       /\ Len(regKind) = loop[l].nregs

C27_AtMostOneLoop ==
    Cardinality({l \in Loops : loop[l].pc \in InCycle}) <= 1

(***************************************************************************)
(* C28  The transitions detect_with_state() returns alternate, beginning   *)
(* with ACTIVE: a transition is returned only by a compare that changes    *)
(* the previous state, it is the new previous state, and the previous      *)
(* state changes in no other way; the compare and the update are one step  *)
(* under _state_lock whatever the number of calling threads.  Hence the    *)
(* start dispatches made so far are as many as the end dispatches, or one  *)
(* more.  The dispatches of two loop threads can come in the other order   *)
(* than their transitions.                                                 *)
(***************************************************************************)
C28_TransitionsAlternate ==
    /\ [][\A l \in Loops :
            (loop[l].pc = "compare" /\ loop'[l].pc = "store") =>
                IF previous_state' # previous_state
                THEN loop'[l].change = Some(previous_state')
                ELSE loop'[l].change = None]_vars
    /\ [][previous_state' # previous_state =>
            \E l \in Loops : loop[l].pc = "compare" /\ loop'[l].pc = "store"]_vars
    /\ [](balance \in {0, 1})

(***************************************************************************)
(* C29  While the engine is running: once the host is in a meeting that    *)
(* the detector has not yet recorded, every start callback registered by   *)
(* then gets its thread started by a dispatch of an ACTIVE transition,     *)
(* unless the meeting ends or the engine is stopped first (or the model's  *)
(* cycle bound leaves no sample to take); likewise the end callbacks once  *)
(* the host has left a meeting the detector has recorded.  A change of the host is seen *)
(* only through a sample: it changes nothing in the engine by itself, and  *)
(* a dispatch is made only by a cycle whose own sample differs in state    *)
(* from the previous state it was compared with, so a change that reverts  *)
(* between two samples gives no dispatch.                                  *)
(***************************************************************************)
HostState == IF \E r \in host : r.is_meeting_active THEN ACTIVE ELSE INACTIVE

Dispatched(r, state) ==
    \E l \in Loops :
       /\ loop[l].change = Some(state)
       /\ \E i \in 1..Len(loop[l].spawned) : loop[l].spawned[i] = r

AwaitsDispatch(r, state) ==
    /\ is_running
    /\ HostState = state
    /\ previous_state # state
    /\ r <= Len(regKind)
    /\ regKind[r] = (IF state = ACTIVE THEN "start" ELSE "end")

=============================================================================
